---- MODULE Spec2Model ----
(***************************************************************************)
(* Model of CrossSectionTool.py: the command dialog of the Cross-Section   *)
(* Generator (distribution dropdown, quantity input, selections) and the   *)
(* execute handler that computes plane offsets and creates construction    *)
(* planes, first by distance-on-path and then by offset from the XY plane. *)
(*                                                                         *)
(* Python floats are modelled as exact rationals <<n, d>> (d > 0, lowest   *)
(* terms): rounding of IEEE doubles is not modelled.                       *)
(***************************************************************************)
EXTENDS Integers, Sequences, FiniteSets, TLC

VARIABLES
    distribution,   \* selected item of the 'distribution' dropdown
    qValue,         \* quantityInput.value
    qMin,           \* quantityInput.minimumValue
    qMax,           \* quantityInput.maximumValue
    qUnit,          \* quantityInput.unitType
    suppression,    \* value of the 'suppression' checkbox
    bodiesSel,      \* bodiesInput.selectionCount
    axisSel,        \* axisInput.selectionCount > 0
    activeDesign,   \* app.activeProduct is a Fusion design
    pc,             \* position of the command: dialog, execute loop, done
    offsets,        \* offsets computed by the execute handler
    i,              \* loop index of enumerate(offsets), 0-based
    docPlanes,      \* rootComp.constructionPlanes of the host document
    createdPlanes,  \* createdPlanes: handles (positions in docPlanes)
    planeFeature,   \* handle held by planeFeature, 0 before any add
    attempts,       \* every plane-creation request made to the host
    messages        \* every _ui.messageBox shown by the execute handler

vars == <<distribution, qValue, qMin, qMax, qUnit, suppression, bodiesSel,
          axisSel, activeDesign, pc, offsets, i, docPlanes, createdPlanes,
          planeFeature, attempts, messages>>

dialogVars == <<distribution, qValue, qMin, qMax, qUnit, suppression,
                bodiesSel, axisSel, activeDesign>>

(***************************************************************************)
(* Bounds of the model.                                                    *)
(***************************************************************************)
\* largest plane count a user enters before executing the plane loop
MaxCount == 6
\* largest number of bodies a user selects
MaxBodies == 2
\* largest number of construction planes the document holds beforehand
MaxExisting == 1

(***************************************************************************)
(* Rational arithmetic standing for Python float arithmetic.               *)
(***************************************************************************)
Abs(n) == IF n < 0 THEN -n ELSE n

RECURSIVE GCD(_, _)
GCD(a, b) == IF b = 0 THEN a ELSE GCD(b, a % b)

Rat(n, d) ==
    LET g == GCD(Abs(n), Abs(d))
        s == IF d < 0 THEN -1 ELSE 1
    IN  <<(s * n) \div g, (s * d) \div g>>

RAdd(a, b) == Rat(a[1] * b[2] + b[1] * a[2], a[2] * b[2])
RSub(a, b) == Rat(a[1] * b[2] - b[1] * a[2], a[2] * b[2])
RMul(a, b) == Rat(a[1] * b[1], a[2] * b[2])
RDiv(a, b) == Rat(a[1] * b[2], a[2] * b[1])
RLess(a, b) == a[1] * b[2] < b[1] * a[2]
RLeq(a, b) == a[1] * b[2] <= b[1] * a[2]
RMax(a, b) == IF RLess(a, b) THEN b ELSE a
RMin(a, b) == IF RLess(b, a) THEN b ELSE a

\* int(x) of a float: truncation toward zero
IntOf(a) == IF a[1] >= 0 THEN a[1] \div a[2] ELSE -((-a[1]) \div a[2])

(***************************************************************************)
(* Program constants.                                                      *)
(***************************************************************************)
CountDefault == 6
CountMinimum == 1
CountMaximum == 100
DistancePlaneCount == 6
DistanceDefault == Rat(5, 1)
DistanceMinimum == Rat(1, 10)
DistanceMaximum == Rat(1000, 1)
startOffset == Rat(-10, 1)
endOffset == Rat(10, 1)
DistanceStart == Rat(-10, 1)
DistanceStep == Rat(333, 100)

(***************************************************************************)
(* f"Section_Plane_{i+1:03d}": decimal digits, zero-padded to width 3.     *)
(***************************************************************************)
RECURSIVE Digits(_)
Digits(n) == IF n < 10 THEN <<n>> ELSE Digits(n \div 10) \o <<n % 10>>

Format03d(n) ==
    LET ds == Digits(n)
    IN  IF Len(ds) >= 3 THEN ds ELSE [k \in 1..(3 - Len(ds)) |-> 0] \o ds

SectionPlaneName(idx) == [prefix |-> "Section_Plane_", digits |-> Format03d(idx + 1)]

\* the name the host gives a construction plane when it is added
HostPlaneName(n) == [prefix |-> "Plane", digits |-> Digits(n)]

HostPlane(n, how, arg) ==
    [name |-> HostPlaneName(n), isSuppressed |-> FALSE, by |-> how, at |-> arg]

(***************************************************************************)
(* Offsets (lines 113-127) and the normalized distance (lines 141-143).    *)
(***************************************************************************)
PlaneQuantity(method, value) == IF method = "Count" THEN IntOf(value) ELSE value

CountOffsets_DivN(planeCount) ==
    IF planeCount = 1
    THEN <<Rat(0, 1)>>
    ELSE LET offsetRange == RSub(endOffset, startOffset)
         IN  [k \in 1..planeCount |->
                RAdd(startOffset, RDiv(RMul(Rat(k - 1, 1), offsetRange),
                                       Rat(planeCount, 1)))]

CountOffsets(planeCount) ==
    IF planeCount = 1
    THEN <<Rat(0, 1)>>
    ELSE LET offsetRange == RSub(endOffset, startOffset)
         IN  [k \in 1..planeCount |->
                RAdd(startOffset, RDiv(RMul(Rat(k - 1, 1), offsetRange),
                                       Rat(planeCount - 1, 1)))]

DistanceOffsets_BySpacing(quantity) ==
    [k \in 1..DistancePlaneCount |->
        RAdd(DistanceStart, RMul(Rat(k - 1, 1), quantity))]

DistanceOffsets(quantity) ==
    [k \in 1..DistancePlaneCount |->
        RAdd(DistanceStart, RMul(Rat(k - 1, 1), DistanceStep))]

ComputeOffsets(method, quantity) ==
    IF method = "Count" THEN CountOffsets(quantity) ELSE DistanceOffsets(quantity)

NormalizedDistance_ByLast(offs, offset) ==
    LET raw == IF Len(offs) > 1
               THEN RDiv(RSub(offset, offs[1]), offs[Len(offs)])
               ELSE Rat(1, 2)
    IN  RMax(Rat(0, 1), RMin(Rat(1, 1), raw))

NormalizedDistance(offs, offset) ==
    LET raw == IF Len(offs) > 1
               THEN RDiv(RSub(offset, offs[1]), RSub(offs[Len(offs)], offs[1]))
               ELSE Rat(1, 2)
    IN  RMax(Rat(0, 1), RMin(Rat(1, 1), raw))

(***************************************************************************)
(* State after CrossSectionCommandCreatedHandler.notify (lines 189-230):   *)
(* Count selected, suppression off, integer spinner 1..100 at 6, nothing   *)
(* selected.  The document may already hold construction planes.           *)
(***************************************************************************)
Init ==
    /\ distribution = "Count"
    /\ qValue = Rat(CountDefault, 1)
    /\ qMin = Rat(CountMinimum, 1)
    /\ qMax = Rat(CountMaximum, 1)
    /\ qUnit = ""
    /\ suppression = FALSE
    /\ bodiesSel = 0
    /\ axisSel = FALSE
    /\ activeDesign \in BOOLEAN
    /\ pc = "dialog"
    /\ offsets = <<>>
    /\ i = 0
    /\ \E n \in 0..MaxExisting :
          docPlanes = [k \in 1..n |-> HostPlane(k, "existing", Rat(0, 1))]
    /\ createdPlanes = <<>>
    /\ planeFeature = 0
    /\ attempts = <<>>
    /\ messages = <<>>

(***************************************************************************)
(* CrossSectionInputChangedHandler.notify (lines 19-42).                   *)
(***************************************************************************)
DistributionChanged_KeepValue(item) ==
    /\ pc = "dialog"
    /\ distribution' = item
    /\ IF item = "Count"
       THEN /\ qUnit' = ""
            /\ qValue' = qValue
            /\ qMin' = Rat(CountMinimum, 1)
            /\ qMax' = Rat(CountMaximum, 1)
       ELSE /\ qUnit' = "cm"
            /\ qValue' = DistanceDefault
            /\ qMin' = DistanceMinimum
            /\ qMax' = DistanceMaximum
    /\ UNCHANGED <<suppression, bodiesSel, axisSel, activeDesign, pc, offsets,
                   i, docPlanes, createdPlanes, planeFeature, attempts, messages>>

\* the user picks an item of the dropdown; changedInput.id = 'distribution'
DistributionChanged(item) ==
    /\ pc = "dialog"
    /\ distribution' = item
    /\ IF item = "Count"
       THEN /\ qUnit' = ""
            /\ qValue' = Rat(CountDefault, 1)
            /\ qMin' = Rat(CountMinimum, 1)
            /\ qMax' = Rat(CountMaximum, 1)
       ELSE /\ qUnit' = "cm"
            /\ qValue' = DistanceDefault
            /\ qMin' = DistanceMinimum
            /\ qMax' = DistanceMaximum
    /\ UNCHANGED <<suppression, bodiesSel, axisSel, activeDesign, pc, offsets,
                   i, docPlanes, createdPlanes, planeFeature, attempts, messages>>

\* the user edits the quantity within the input's minimum and maximum;
\* changedInput.id = 'quantity', the handler changes no input
QuantityChanged(v) ==
    /\ pc = "dialog"
    /\ RLeq(qMin, v)
    /\ RLeq(v, qMax)
    /\ qValue' = v
    /\ UNCHANGED <<distribution, qMin, qMax, qUnit, suppression, bodiesSel,
                   axisSel, activeDesign, pc, offsets, i, docPlanes,
                   createdPlanes, planeFeature, attempts, messages>>

\* changedInput.id = 'suppression'
SuppressionChanged ==
    /\ pc = "dialog"
    /\ suppression' = ~suppression
    /\ UNCHANGED <<distribution, qValue, qMin, qMax, qUnit, bodiesSel, axisSel,
                   activeDesign, pc, offsets, i, docPlanes, createdPlanes,
                   planeFeature, attempts, messages>>

\* changedInput.id = 'bodies'
BodiesChanged(n) ==
    /\ pc = "dialog"
    /\ bodiesSel' = n
    /\ UNCHANGED <<distribution, qValue, qMin, qMax, qUnit, suppression, axisSel,
                   activeDesign, pc, offsets, i, docPlanes, createdPlanes,
                   planeFeature, attempts, messages>>

\* changedInput.id = 'axis'
AxisChanged ==
    /\ pc = "dialog"
    /\ axisSel' = ~axisSel
    /\ UNCHANGED <<distribution, qValue, qMin, qMax, qUnit, suppression,
                   bodiesSel, activeDesign, pc, offsets, i, docPlanes,
                   createdPlanes, planeFeature, attempts, messages>>

(***************************************************************************)
(* CrossSectionExecuteHandler.notify (lines 63-182).                       *)
(***************************************************************************)
Message(kind, n) == [kind |-> kind, n |-> n]

InvalidSelection_BodiesOnly == bodiesSel = 0

\* not selectedBodies or not selectedAxis
InvalidSelection == bodiesSel = 0 \/ ~axisSel

\* lines 64-131: collect the inputs, show them, check the preconditions and
\* compute the offsets
Execute ==
    /\ pc = "dialog"
    /\ LET shown == Append(messages, Message("parameters", bodiesSel))
       IN  IF InvalidSelection
           THEN /\ messages' = shown
                /\ pc' = "done"
                /\ UNCHANGED offsets
           ELSE IF ~activeDesign
           THEN /\ messages' = Append(shown, Message("No active Fusion design", 0))
                /\ pc' = "done"
                /\ UNCHANGED offsets
           ELSE /\ messages' = shown
                /\ offsets' = ComputeOffsets(distribution,
                                             PlaneQuantity(distribution, qValue))
                /\ pc' = "loop"
    /\ UNCHANGED <<dialogVars, i, docPlanes, createdPlanes, planeFeature, attempts>>

Attempt(method, arg, ok) == [idx |-> i + 1, method |-> method, arg |-> arg, ok |-> ok]

\* lines 137-149 succeed: constructionPlanes.add returns the new plane
PrimaryAdd ==
    /\ pc = "loop"
    /\ i < Len(offsets)
    /\ LET t == NormalizedDistance(offsets, offsets[i + 1])
       IN  /\ docPlanes' = Append(docPlanes,
                                  HostPlane(Len(docPlanes) + 1, "distanceOnPath", t))
           /\ attempts' = Append(attempts, Attempt("distanceOnPath", t, TRUE))
    /\ planeFeature' = Len(docPlanes) + 1
    /\ pc' = "p_name"
    /\ UNCHANGED <<dialogVars, offsets, i, createdPlanes, messages>>

PrimaryFail_Retry ==
    /\ pc = "loop"
    /\ i < Len(offsets)
    /\ Len(attempts) < 2 * Len(offsets)
    /\ LET t == NormalizedDistance(offsets, offsets[i + 1])
       IN  attempts' = Append(attempts, Attempt("distanceOnPath", t, FALSE))
    /\ messages' = Append(messages, Message("distanceOnPath failed", i + 1))
    /\ pc' = "loop"
    /\ UNCHANGED <<dialogVars, offsets, i, docPlanes, createdPlanes, planeFeature>>

\* lines 137-149 raise, line 158 reports it
PrimaryFail ==
    /\ pc = "loop"
    /\ i < Len(offsets)
    /\ LET t == NormalizedDistance(offsets, offsets[i + 1])
       IN  attempts' = Append(attempts, Attempt("distanceOnPath", t, FALSE))
    /\ messages' = Append(messages, Message("distanceOnPath failed", i + 1))
    /\ pc' = "fallback"
    /\ UNCHANGED <<dialogVars, offsets, i, docPlanes, createdPlanes, planeFeature>>

\* line 150
PrimaryName ==
    /\ pc = "p_name"
    /\ docPlanes' = [docPlanes EXCEPT ![planeFeature].name = SectionPlaneName(i)]
    /\ pc' = "p_append"
    /\ UNCHANGED <<dialogVars, offsets, i, createdPlanes, planeFeature, attempts,
                   messages>>

\* line 152
PrimaryAppend ==
    /\ pc = "p_append"
    /\ createdPlanes' = Append(createdPlanes, planeFeature)
    /\ pc' = "p_suppress"
    /\ UNCHANGED <<dialogVars, offsets, i, docPlanes, planeFeature, attempts,
                   messages>>

\* lines 154-155, then the next iteration
PrimarySuppress ==
    /\ pc = "p_suppress"
    /\ docPlanes' = IF suppression
                    THEN [docPlanes EXCEPT ![planeFeature].isSuppressed = TRUE]
                    ELSE docPlanes
    /\ i' = i + 1
    /\ pc' = "loop"
    /\ UNCHANGED <<dialogVars, offsets, createdPlanes, planeFeature, attempts,
                   messages>>

\* lines 161-168 succeed
FallbackAdd ==
    /\ pc = "fallback"
    /\ docPlanes' = Append(docPlanes,
                           HostPlane(Len(docPlanes) + 1, "offset", offsets[i + 1]))
    /\ attempts' = Append(attempts, Attempt("offset", offsets[i + 1], TRUE))
    /\ planeFeature' = Len(docPlanes) + 1
    /\ pc' = "f_name"
    /\ UNCHANGED <<dialogVars, offsets, i, createdPlanes, messages>>

FallbackFail_NoBreak ==
    /\ pc = "fallback"
    /\ attempts' = Append(attempts, Attempt("offset", offsets[i + 1], FALSE))
    /\ messages' = Append(messages, Message("both methods failed", i + 1))
    /\ i' = i + 1
    /\ pc' = "loop"
    /\ UNCHANGED <<dialogVars, offsets, docPlanes, createdPlanes, planeFeature>>

FallbackFail_Rollback ==
    /\ pc = "fallback"
    /\ attempts' = Append(attempts, Attempt("offset", offsets[i + 1], FALSE))
    /\ messages' = Append(messages, Message("both methods failed", i + 1))
    /\ docPlanes' = SubSeq(docPlanes, 1, Len(docPlanes) - Len(createdPlanes))
    /\ pc' = "report"
    /\ UNCHANGED <<dialogVars, offsets, i, createdPlanes, planeFeature>>

\* lines 161-168 raise, line 176 reports it, line 177 leaves the loop
FallbackFail ==
    /\ pc = "fallback"
    /\ attempts' = Append(attempts, Attempt("offset", offsets[i + 1], FALSE))
    /\ messages' = Append(messages, Message("both methods failed", i + 1))
    /\ pc' = "report"
    /\ UNCHANGED <<dialogVars, offsets, i, docPlanes, createdPlanes, planeFeature>>

\* line 169
FallbackName ==
    /\ pc = "f_name"
    /\ docPlanes' = [docPlanes EXCEPT ![planeFeature].name = SectionPlaneName(i)]
    /\ pc' = "f_append"
    /\ UNCHANGED <<dialogVars, offsets, i, createdPlanes, planeFeature, attempts,
                   messages>>

\* line 170
FallbackAppend ==
    /\ pc = "f_append"
    /\ createdPlanes' = Append(createdPlanes, planeFeature)
    /\ pc' = "f_suppress"
    /\ UNCHANGED <<dialogVars, offsets, i, docPlanes, planeFeature, attempts,
                   messages>>

FallbackSuppress_Skip ==
    /\ pc = "f_suppress"
    /\ i' = i + 1
    /\ pc' = "loop"
    /\ UNCHANGED <<dialogVars, offsets, docPlanes, createdPlanes, planeFeature,
                   attempts, messages>>

\* lines 172-173, then the next iteration
FallbackSuppress ==
    /\ pc = "f_suppress"
    /\ docPlanes' = IF suppression
                    THEN [docPlanes EXCEPT ![planeFeature].isSuppressed = TRUE]
                    ELSE docPlanes
    /\ i' = i + 1
    /\ pc' = "loop"
    /\ UNCHANGED <<dialogVars, offsets, createdPlanes, planeFeature, attempts,
                   messages>>

ReportedCount_Requested == Len(offsets)

\* len(createdPlanes) of line 179
ReportedCount == Len(createdPlanes)

\* line 179, after the loop ran out of offsets or was left by break
Report ==
    /\ \/ pc = "report"
       \/ pc = "loop" /\ i >= Len(offsets)
    /\ messages' = Append(messages, Message("Successfully created", ReportedCount))
    /\ pc' = "done"
    /\ UNCHANGED <<dialogVars, offsets, i, docPlanes, createdPlanes, planeFeature,
                   attempts>>

\* CrossSectionDestroyHandler.notify (lines 52-54): adsk.terminate()
Destroy ==
    /\ pc \in {"dialog", "done"}
    /\ pc' = "terminated"
    /\ UNCHANGED <<dialogVars, offsets, i, docPlanes, createdPlanes, planeFeature,
                   attempts, messages>>

(***************************************************************************)
(* Values a user types into the quantity input.                            *)
(***************************************************************************)
FractionalQuantities == {Rat(1, 10), Rat(1, 2), Rat(333, 100), Rat(1000, 1)}

SmallQuantities == {Rat(n, 1) : n \in 1..MaxCount} \cup FractionalQuantities

AllQuantities == {Rat(n, 1) : n \in CountMinimum..CountMaximum} \cup FractionalQuantities

Next ==
    \/ \E item \in {"Count", "Distance"} : DistributionChanged(item)
    \/ \E v \in SmallQuantities : QuantityChanged(v)
    \/ SuppressionChanged
    \/ \E n \in 0..MaxBodies : BodiesChanged(n)
    \/ AxisChanged
    \/ Execute
    \/ PrimaryAdd
    \/ PrimaryFail
    \/ PrimaryName
    \/ PrimaryAppend
    \/ PrimarySuppress
    \/ FallbackAdd
    \/ FallbackFail
    \/ FallbackName
    \/ FallbackAppend
    \/ FallbackSuppress
    \/ Report
    \/ Destroy

Spec == Init /\ [][Next]_vars

(***************************************************************************)
(* The offset computation alone: the dialog sets the mode and the          *)
(* quantity over the whole range of the input, and lines 78-80 and 113-127 *)
(* are applied to them.                                                    *)
(***************************************************************************)
OffsetsOnly ==
    /\ pc = "dialog"
    /\ offsets' = ComputeOffsets(distribution, PlaneQuantity(distribution, qValue))
    /\ pc' = "computed"
    /\ UNCHANGED <<dialogVars, i, docPlanes, createdPlanes, planeFeature, attempts,
                   messages>>

NextOffsets ==
    \/ \E item \in {"Count", "Distance"} : DistributionChanged(item)
    \/ \E v \in AllQuantities : QuantityChanged(v)
    \/ OffsetsOnly

SpecOffsets == Init /\ [][NextOffsets]_vars

(***************************************************************************)
(* Properties.                                                             *)
(***************************************************************************)
Positions(seq) == 1..Len(seq)

PrimaryAttempts(k) ==
    {n \in Positions(attempts) :
        attempts[n].idx = k /\ attempts[n].method = "distanceOnPath"}

FallbackAttempts(k) ==
    {n \in Positions(attempts) : attempts[n].idx = k /\ attempts[n].method = "offset"}

BothFailedAt(k) == \E n \in FallbackAttempts(k) : ~attempts[n].ok

AddedPlanes == {h \in Positions(docPlanes) : docPlanes[h].by # "existing"}

Reports == {m \in Positions(messages) : messages[m].kind = "Successfully created"}

Finished == pc \in {"done", "terminated"}

\* C1: the planes of createdPlanes, in creation order, are named
\* Section_Plane_001, Section_Plane_002, ..., one name per position, whichever
\* method made them.
C1_NamesAreConsecutive ==
    \A k \in Positions(createdPlanes) :
        docPlanes[createdPlanes[k]].name =
            [prefix |-> "Section_Plane_",
             digits |-> <<k \div 100, (k \div 10) % 10, k % 10>>]

C1_Witness ==
    /\ pc = "done"
    /\ Len(createdPlanes) = 3
    /\ BothFailedAt(4)
    /\ \E h \in AddedPlanes : docPlanes[h].by = "offset"
    /\ \E h \in AddedPlanes : docPlanes[h].by = "distanceOnPath"

\* C2: when both methods failed for offset k, no attempt is made for a later
\* offset, and the final message reports the number of planes created for the
\* offsets before k.
C2_AbortStopsLoop ==
    \A k \in Positions(offsets) :
        BothFailedAt(k) =>
            /\ \A n \in Positions(attempts) : attempts[n].idx <= k
            /\ Finished => Reports # {}
            /\ \A m \in Reports :
                  messages[m].n =
                      Cardinality({n \in Positions(attempts) :
                                      attempts[n].ok /\ attempts[n].idx < k})

C2_Witness ==
    /\ pc = "done"
    /\ BothFailedAt(3)
    /\ Len(offsets) = 6
    /\ \E m \in Reports : messages[m].n = 2

\* C3: for every attempted offset the primary method is requested exactly once
\* and first; the fallback is requested at most once, never after a primary
\* success, and exactly once after a primary failure.
C3_OneFallbackPerFailure ==
    \A k \in {attempts[n].idx : n \in Positions(attempts)} :
        /\ Cardinality(PrimaryAttempts(k)) = 1
        /\ Cardinality(FallbackAttempts(k)) <= 1
        /\ \A p \in PrimaryAttempts(k) :
              /\ \A f \in FallbackAttempts(k) : p < f
              /\ attempts[p].ok => FallbackAttempts(k) = {}
              /\ ~attempts[p].ok /\ ~(pc = "fallback" /\ i + 1 = k) =>
                     Cardinality(FallbackAttempts(k)) = 1

C3_Witness ==
    /\ pc = "done"
    /\ \E p \in PrimaryAttempts(1) : attempts[p].ok
    /\ \E p \in PrimaryAttempts(2) : ~attempts[p].ok
    /\ \E f \in FallbackAttempts(2) : attempts[f].ok
    /\ Len(attempts) >= 4

\* C4: when the loop is at an offset boundary or has ended, every plane
\* created so far carries a Section_Plane name and is suppressed exactly when
\* the suppression flag is set.
C4_PlanesNamedAndFlagged ==
    pc \in {"loop", "report", "done", "terminated"} =>
        \A h \in AddedPlanes :
            /\ docPlanes[h].name.prefix = "Section_Plane_"
            /\ docPlanes[h].isSuppressed = suppression

C4_Witness ==
    /\ pc = "loop"
    /\ suppression
    /\ i < Len(offsets)
    /\ \E h \in AddedPlanes : docPlanes[h].by = "offset" /\ docPlanes[h].isSuppressed
    /\ \E h \in AddedPlanes :
          docPlanes[h].by = "distanceOnPath" /\ docPlanes[h].isSuppressed

\* C5: in Count mode with span (-10, 10), quantity 1 gives [0.0]; quantity
\* N > 1 gives N strictly increasing values from -10 to 10 with the constant
\* spacing 20/(N-1); N = 6 gives [-10, -6, -2, 2, 6, 10].
C5_CountOffsetsEvenlySpaced ==
    pc = "computed" /\ distribution = "Count" =>
        LET N == qValue[1] \div qValue[2]
        IN  /\ N \in 1..100
            /\ N = 1 => offsets = << <<0, 1>> >>
            /\ N = 6 => offsets = << <<-10, 1>>, <<-6, 1>>, <<-2, 1>>,
                                     <<2, 1>>, <<6, 1>>, <<10, 1>> >>
            /\ N > 1 =>
                  /\ Len(offsets) = N
                  /\ offsets[1] = <<-10, 1>>
                  /\ offsets[N] = <<10, 1>>
                  /\ \A k \in 1..(N - 1) :
                        /\ offsets[k][1] * offsets[k + 1][2]
                               < offsets[k + 1][1] * offsets[k][2]
                        /\ (offsets[k + 1][1] * offsets[k][2]
                               - offsets[k][1] * offsets[k + 1][2]) * (N - 1)
                               = 20 * offsets[k][2] * offsets[k + 1][2]
                  /\ \A k \in 1..N :
                        offsets[k][1] * (N - 1)
                            = (-10 * (N - 1) + 20 * (k - 1)) * offsets[k][2]

C5_Witness ==
    /\ pc = "computed"
    /\ distribution = "Count"
    /\ qValue = <<100, 1>>
    /\ Len(offsets) = 100
    /\ offsets[2] = <<-970, 99>>

C7_DistanceOffsetsFixed ==
    pc = "computed" /\ distribution = "Distance" =>
        offsets = << <<-10, 1>>, <<-667, 100>>, <<-167, 50>>,
                     <<-1, 100>>, <<83, 25>>, <<133, 20>> >>

C7_Witness ==
    /\ pc = "computed"
    /\ distribution = "Distance"
    /\ qValue = <<1, 2>>
    /\ Len(offsets) = 6

\* C8: no step removes a plane of the document or changes a plane other than
\* the one being named and flagged in the current iteration; at the end the
\* planes added to the document are exactly the reported ones, at most one
\* per offset.
C8_NoRollback ==
    /\ [][/\ Len(docPlanes') >= Len(docPlanes)
          /\ \A h \in Positions(docPlanes) :
                (h # planeFeature
                    \/ pc \in {"loop", "fallback", "report", "done", "terminated"})
                    => docPlanes'[h] = docPlanes[h]
         ]_vars
    /\ [](Finished =>
            /\ AddedPlanes = {createdPlanes[k] : k \in Positions(createdPlanes)}
            /\ \A m \in Reports : messages[m].n = Cardinality(AddedPlanes)
            /\ \A k \in Positions(offsets) :
                  Cardinality({n \in Positions(attempts) :
                                  attempts[n].idx = k /\ attempts[n].ok}) <= 1
            /\ Cardinality(AddedPlanes) <= Len(offsets))

C8_Witness ==
    /\ pc = "done"
    /\ BothFailedAt(3)
    /\ Len(createdPlanes) = 2
    /\ Len(docPlanes) = 3
    /\ \E m \in Reports : messages[m].n = 2

\* C9: the parameter given to the primary method lies in [0, 1], is 1/2 for a
\* single offset, and otherwise is the offset's share of the way from the
\* first offset to the last: 0 for the first, 1 for the last, strictly
\* increasing with the index.
C9_ParameterNormalized ==
    \A n \in Positions(attempts) :
        attempts[n].method = "distanceOnPath" =>
            LET t == attempts[n].arg
                k == attempts[n].idx
                L == Len(offsets)
            IN  /\ 0 <= t[1] /\ t[1] <= t[2]
                /\ L = 1 => t = <<1, 2>>
                /\ L > 1 =>
                      /\ k = 1 => t = <<0, 1>>
                      /\ k = L => t = <<1, 1>>
                      /\ RMul(t, RSub(offsets[L], offsets[1]))
                             = RSub(offsets[k], offsets[1])
                      /\ \A m \in Positions(attempts) :
                            (attempts[m].method = "distanceOnPath"
                                /\ attempts[m].idx < k)
                                => attempts[m].arg[1] * t[2] < t[1] * attempts[m].arg[2]

C9_Witness ==
    /\ pc = "done"
    /\ distribution = "Distance"
    /\ \E n \in PrimaryAttempts(6) : attempts[n].arg = <<1, 1>>
    /\ \E n \in PrimaryAttempts(3) : attempts[n].arg = <<2, 5>>
    /\ \E n \in PrimaryAttempts(1) : attempts[n].arg = <<0, 1>>

\* C10: the quantity stays within the range of the selected mode (Count: 1 to
\* 100, Distance: 0.1 to 1000), selecting a mode resets it to 6 or 5.0, and
\* the plane count used in Count mode is an integer of at least 1.
C10_QuantityWithinModeRange ==
    /\ [](/\ distribution = "Count" =>
                /\ qMin = <<1, 1>> /\ qMax = <<100, 1>>
                /\ qValue[2] <= qValue[1] /\ qValue[1] <= 100 * qValue[2]
                /\ pc = "computed" => Len(offsets) >= 1
          /\ distribution = "Distance" =>
                /\ qMin = <<1, 10>> /\ qMax = <<1000, 1>>
                /\ qValue[2] <= 10 * qValue[1] /\ qValue[1] <= 1000 * qValue[2])
    /\ [][distribution' # distribution =>
             qValue' = IF distribution' = "Count" THEN <<6, 1>> ELSE <<5, 1>>]_vars

C10_Witness ==
    /\ pc = "computed"
    /\ distribution = "Count"
    /\ qUnit = ""
    /\ qValue = <<333, 100>>
    /\ Len(offsets) = 3

====
